---- MODULE Spec2Model ----
(***************************************************************************)
(* Model of task2/main.py: RateLimiter (sliding one-second window guarded  *)
(* by an asyncio.Lock), the asyncio.Semaphore of GithubReposScrapper, the  *)
(* executor _make_request that composes both around the transport call,    *)
(* and get_repositories, which lists the top repositories once and then    *)
(* gathers one commit-aggregation task per listed repository.              *)
(*                                                                         *)
(* Task 0 is the listing call made by get_repositories itself; tasks 1..n  *)
(* are the coroutines handed to asyncio.gather.  One action is one run of  *)
(* a coroutine between two suspension points of the event loop.  The clock *)
(* is datetime.now() counted in ticks, taken to be monotonic;              *)
(* asyncio.sleep(d) returns at any time not earlier than d after its call. *)
(*                                                                         *)
(* Spec is that program.  SpecFive adds the scenario of five tasks behind  *)
(* one slot, SpecPrompt has timers that fire on time, SpecFair has time    *)
(* without end and a fair event loop.  SpecAggregate and SpecSummary apply *)
(* the aggregator and the summary of one listing record to every input of  *)
(* a bounded set, and SpecSave is _save_in_batches of                      *)
(* task3/save_to_clickhouse.py.                                            *)
(***************************************************************************)
EXTENDS Integers, Sequences, FiniteSets, TLC

\* timedelta(seconds=1), the window of RateLimiter, in clock ticks
Second == 2

\* bounds of the model
MaxTime == 4
MaxCapacity == 2
MaxAvailable == 2

VARIABLES
    max_concurrent_requests, \* argument of GithubReposScrapper.__init__
    requests_per_second,     \* argument of GithubReposScrapper.__init__
    phase,                   \* where the caller of the scrapper stands
    error,                   \* the exception raised to the caller, "" if none
    semaphore,               \* self._semaphore._value: the free slots
    locked,                  \* self._rate_limiter._lock.locked()
    requests,                \* self._rate_limiter.requests
    wakeAt,                  \* when the sleeping holder of the lock may resume
    clock,                   \* datetime.now(), in ticks
    admitted,                \* history: the timestamps acquire() appended less than a second ago
    upstream,                \* the remote service: its ranked repositories and their commits
    max_page,                \* the remote service: the largest page it serves
    limit,                   \* argument of get_repositories
    top_repos,               \* get_repositories: the listing returned
    repositories_data,       \* get_repositories: the summaries built from the listing
    pc,                      \* per task: its suspension point
    commits_results,         \* per gathered task: its outcome
    call_outcome,            \* history, per task: how its executor call ended
    repositories,            \* the list get_repositories returns
    transport_calls,         \* history, per task: the transport calls its executor call issued
    fetched_commits,         \* aggregator: the commit events _get_repository_commits returned
    authors_commits_num,     \* aggregator: what it returns for them
    listed_repo,             \* one record of the listing
    repo_summary,            \* the summary get_repositories builds from that record
    batch_size,              \* loader: self.batch_size
    save_data,               \* loader: the records handed to _save_in_batches
    batch_start,             \* loader: the loop index i
    save_log,                \* loader: the inserts and pauses made so far, in order
    save_pc                  \* loader: where _save_in_batches stands

vars == <<max_concurrent_requests, requests_per_second, phase, error, semaphore,
          locked, requests, wakeAt, clock, admitted, upstream, max_page, limit, top_repos,
          repositories_data, pc, commits_results, call_outcome, repositories,
          transport_calls, fetched_commits, authors_commits_num, listed_repo, repo_summary,
          batch_size, save_data, batch_start, save_log, save_pc>>

limiterVars == <<locked, requests, wakeAt, admitted>>
callerVars == <<phase, error, top_repos, repositories_data, commits_results, call_outcome,
               repositories>>
configVars == <<max_concurrent_requests, requests_per_second, upstream, max_page, limit>>
\* the scrapper and its limiter
scrapperVars == <<max_concurrent_requests, requests_per_second, phase, error, semaphore,
                 locked, requests, wakeAt, clock, admitted, upstream, max_page, limit,
                 top_repos, repositories_data, pc, commits_results, call_outcome,
                 repositories, transport_calls>>
aggregatorVars == <<fetched_commits, authors_commits_num>>
summaryVars == <<listed_repo, repo_summary>>
loaderVars == <<batch_size, save_data, batch_start, save_log, save_pc>>
\* what the scrapper never touches
functionVars == <<aggregatorVars, summaryVars, loaderVars>>

Min(a, b) == IF a < b THEN a ELSE b

(***************************************************************************)
(* JSON values.  A JSON object is a function from its keys to values, so a *)
(* missing key is a key outside its DOMAIN; null is the value None.        *)
(***************************************************************************)
None == "<None>"
\* null where an object is expected, and the empty object {}
NullObject == [null |-> TRUE]
EmptyDict == <<>>
IsNone(v) == "null" \in DOMAIN v
\* a list element that is not an object (a string): it has no .get
NotADict == [nondict |-> TRUE]
IsDict(v) == "nondict" \notin DOMAIN v
\* Python truth of an object-or-null value: None and {} are falsy
Truthy(v) == ~IsNone(v) /\ DOMAIN v # {}

\* dict.get(key, default)
Get(d, key, default) == IF key \in DOMAIN d THEN d[key] ELSE default

(***************************************************************************)
(* _get_repository_commits_count_by_author, lines 109-118: the reduction   *)
(* of the commit events to author counts.  author_commits is the           *)
(* insertion-ordered defaultdict, kept as a sequence of entries.           *)
(***************************************************************************)
RepositoryAuthorCommitsNum(a, n) == [author |-> a, commits_num |-> n]

\* mutant of Increment: the author counted last moves to the end of the dict
IncrementMoveToEnd(author_commits, author_name) ==
    LET others == SelectSeq(author_commits, LAMBDA entry : entry.author # author_name)
        before == Len(author_commits) - Len(others)
        counted == IF before = 0 THEN 0
                   ELSE (CHOOSE entry \in {author_commits[i] : i \in 1 .. Len(author_commits)} :
                            entry.author = author_name).commits_num
    IN  Append(others, RepositoryAuthorCommitsNum(author_name, counted + 1))

\* author_commits[author_name] += 1
Increment(author_commits, author_name) ==
    IF \E i \in 1 .. Len(author_commits) : author_commits[i].author = author_name
    THEN [i \in 1 .. Len(author_commits) |->
            IF author_commits[i].author = author_name
            THEN RepositoryAuthorCommitsNum(author_name, author_commits[i].commits_num + 1)
            ELSE author_commits[i]]
    ELSE Append(author_commits, RepositoryAuthorCommitsNum(author_name, 1))

\* one pass of the loop body, lines 111-113
CountCommit(author_commits, commit) ==
    IF Truthy(Get(commit, "commit", NullObject))
       /\ Truthy(Get(commit["commit"], "author", NullObject))
    THEN Increment(author_commits, Get(commit["commit"]["author"], "name", "Unknown"))
    ELSE author_commits

RECURSIVE CountLoop(_, _, _)
CountLoop(commits, i, author_commits) ==
    IF i > Len(commits) THEN author_commits
    ELSE CountLoop(commits, i + 1, CountCommit(author_commits, commits[i]))

\* commit.get raises AttributeError on an element that is no object
CountRaises(commits) == \E i \in 1 .. Len(commits) : ~IsDict(commits[i])

(***************************************************************************)
(* Outcomes.  The result of an executor call is either a decoded body or   *)
(* an exception; the outcome of a gathered task is a list, an Exception    *)
(* instance or a CancelledError instance (a BaseException, not an          *)
(* Exception).                                                             *)
(***************************************************************************)
\* mutant of Raised: the executor swallows the failure and returns an empty body
RaisedSwallowed(e) ==
    [exc |-> "", body |-> [hasItems |-> FALSE, items |-> <<>>, isList |-> FALSE, events |-> <<>>]]

Raised(e) == [exc |-> e, body |-> EmptyDict]
Returned(b) == [exc |-> "", body |-> b]

ListValue(l) == [kind |-> "list", val |-> l]
ExceptionValue == [kind |-> "Exception", val |-> <<>>]
CancelledValue == [kind |-> "CancelledError", val |-> <<>>]
\* isinstance(x, Exception)
IsException(x) == x.kind = "Exception"
\* what `except Exception` catches
CaughtByExceptException(e) == e # "CancelledError"

\* _get_repository_commits, lines 95-103, given how _make_request ended:
\* the commits it returns, or the exception it lets through
GetRepositoryCommits(r) ==
    IF r.exc = "" THEN [exc |-> "", commits |-> IF r.body.isList THEN r.body.events ELSE <<>>]
    ELSE IF CaughtByExceptException(r.exc) THEN [exc |-> "", commits |-> <<>>]
    ELSE [exc |-> r.exc, commits |-> <<>>]

\* _get_repository_commits_count_by_author as the task gather waits for
TaskOutcome(r) ==
    LET got == GetRepositoryCommits(r) IN
    IF got.exc = "CancelledError" THEN CancelledValue
    ELSE IF got.exc # "" THEN ExceptionValue
    ELSE IF CountRaises(got.commits) THEN ExceptionValue
    ELSE ListValue(CountLoop(got.commits, 1, <<>>))

(***************************************************************************)
(* get_repositories, lines 127-142: the summaries built from the listing.  *)
(***************************************************************************)
\* repo_data.get('owner', {}).get('login', '') raises AttributeError on a null owner
OwnerRaises(repo_data) == IsNone(Get(repo_data, "owner", EmptyDict))

RepositoryData(repo_data, position) ==
    [name     |-> Get(repo_data, "name", ""),
     owner    |-> Get(Get(repo_data, "owner", EmptyDict), "login", ""),
     position |-> position,
     stars    |-> Get(repo_data, "stargazers_count", 0),
     watchers |-> Get(repo_data, "watchers_count", 0),
     forks    |-> Get(repo_data, "forks_count", 0),
     language |-> Get(repo_data, "language", "Unknown")]

\* the loop raises at the first record whose owner is null
LoopRaises(repos) == \E i \in 1 .. Len(repos) : OwnerRaises(repos[i])

\* enumerate(top_repos, 1)
Position(i) == i

BuildRepositoriesData(repos) ==
    [i \in 1 .. Len(repos) |-> RepositoryData(repos[i], Position(i))]

(***************************************************************************)
(* get_repositories, lines 146-164: the batch zipped from the summaries    *)
(* and the gathered outcomes.                                              *)
(***************************************************************************)
\* lines 148-150
CommitsResult(commits_result) ==
    IF IsException(commits_result) THEN ListValue(<<>>) ELSE commits_result

Repository(repo_data, commits_result) ==
    [name     |-> repo_data.name,
     owner    |-> repo_data.owner,
     position |-> repo_data.position,
     stars    |-> repo_data.stars,
     watchers |-> repo_data.watchers,
     forks    |-> repo_data.forks,
     language |-> repo_data.language,
     authors_commits_num_today |-> CommitsResult(commits_result)]

\* mutant of Zip: a repository whose outcome is empty or an exception is left out
ZipSkipsEmpty(data, results) ==
    LET kept == SelectSeq([i \in 1 .. Min(Len(data), Len(results)) |-> i],
                          LAMBDA i : results[i].kind # "Exception" /\ results[i].val # <<>>)
    IN  [j \in 1 .. Len(kept) |-> Repository(data[kept[j]], results[kept[j]])]

\* zip(repositories_data, commits_results)
Zip(data, results) ==
    [i \in 1 .. Min(Len(data), Len(results)) |-> Repository(data[i], results[i])]

(***************************************************************************)
(* The remote service: its repositories in rank order, each with the body  *)
(* its commit endpoint answers.  Three kinds of data are tried.            *)
(***************************************************************************)
CommitEvent(name) == [sha |-> "c", commit |-> [author |-> [name |-> name]]]
NoAuthorEvent == [sha |-> "c", commit |-> [message |-> "m"]]
NamelessAuthorEvent == [sha |-> "c", commit |-> [author |-> [email |-> "e"]]]
NullCommitEvent == [sha |-> "c", commit |-> NullObject]

ListBody(events) == [isList |-> TRUE, events |-> events]
\* an error object such as {"message": ...} where a list is expected
ObjectBody == [isList |-> FALSE, events |-> <<>>]

\* i commits of author "x" followed by one of author "y"
PlainEvents(i) == [j \in 1 .. (i + 1) |-> IF j <= i THEN CommitEvent("x") ELSE CommitEvent("y")]

PlainRepo(i) ==
    [record |-> [name |-> ToString(i), owner |-> [login |-> "octo"], language |-> "Python",
                 stargazers_count |-> 9, watchers_count |-> 8, forks_count |-> 7],
     commits |-> ListBody(PlainEvents(i))]

SparseRepo(i) ==
    CASE i % 3 = 1 -> [record |-> [stargazers_count |-> 5],
                       commits |-> ObjectBody]
      [] i % 3 = 2 -> [record |-> [name |-> ToString(i), owner |-> EmptyDict, language |-> None],
                       commits |-> ListBody(<<CommitEvent("x"), NotADict>>)]
      [] OTHER     -> [record |-> [name |-> None, owner |-> [id |-> 1], language |-> "Go"],
                       commits |-> ListBody(<<NoAuthorEvent, CommitEvent("y"), NamelessAuthorEvent,
                                              NullCommitEvent, CommitEvent("y")>>)]

NullOwnerRepo(i) ==
    IF i = 2
    THEN [record |-> [name |-> ToString(i), owner |-> NullObject, language |-> "C"],
          commits |-> ListBody(PlainEvents(i))]
    ELSE PlainRepo(i)

Flavours == {"plain", "sparse", "nullowner"}

UpstreamOf(flavour, n) ==
    [i \in 1 .. n |->
        CASE flavour = "plain"  -> PlainRepo(i)
          [] flavour = "sparse" -> SparseRepo(i)
          [] OTHER              -> NullOwnerRepo(i)]

UpstreamInputs == {UpstreamOf(f, n) : f \in Flavours, n \in 0 .. MaxAvailable}

\* the page the search endpoint serves for per_page: the service caps the
\* page size at its own maximum
PageLength(per_page) == Min(Min(per_page, max_page), Len(upstream))

\* what the listing endpoint may answer to line 86: the first page of its
\* ranking, or an object without "items" (an error message)
ListingBodies ==
    {[hasItems |-> TRUE, items |-> [i \in 1 .. PageLength(limit) |-> upstream[i].record]],
     [hasItems |-> FALSE, items |-> <<>>]}

(***************************************************************************)
(* RateLimiter.acquire, lines 47-62.                                       *)
(***************************************************************************)
\* [req_time for req_time in self.requests if now - req_time < timedelta(seconds=1)]
Prune(reqs, now) == SelectSeq(reqs, LAMBDA req_time : now - req_time < Second)

\* mutant of SleepTime: the wait ends one tick before the oldest entry expires
SleepTimeShort(reqs, now) == Second - 1 - (now - reqs[1])

\* mutant of SleepTime: the wait ends one tick after the oldest entry expires
SleepTimeLong(reqs, now) == Second + 1 - (now - reqs[1])

\* sleep_time = 1.0 - (now - self.requests[0]).total_seconds()
SleepTime(reqs, now) == Second - (now - reqs[1])

\* lines 49-57 and, when no sleep is needed, 59-62: what the holder of the
\* lock does before it suspends or leaves
AcquireStep(reqs, now, rps) ==
    LET pruned == Prune(reqs, now) IN
    IF Len(pruned) >= rps
    THEN IF pruned = <<>>
         THEN [outcome |-> "IndexError", requests |-> pruned, wake |-> 0]
         ELSE IF SleepTime(pruned, now) > 0
              THEN [outcome |-> "sleep", requests |-> pruned,
                    wake |-> now + SleepTime(pruned, now)]
              ELSE [outcome |-> "admit", requests |-> Append(Prune(pruned, now), now),
                    wake |-> 0]
    ELSE [outcome |-> "admit", requests |-> Append(pruned, now), wake |-> 0]

\* lines 59-62 after the sleep
AfterSleep(reqs, now) == Append(Prune(reqs, now), now)

(***************************************************************************)
(* Construction: GithubReposScrapper.__init__ and RateLimiter.__init__.    *)
(* Neither validates its capacity; asyncio.Semaphore itself raises         *)
(* ValueError on a negative value and accepts 0.                           *)
(***************************************************************************)
CapacityInputs == -1 .. MaxCapacity

\* the limits get_repositories is called with: one that no page exceeds and
\* one that exceeds every page the service serves
LimitInputs == {1, 5}

SemaphoreRaises(value) == value < 0

PendingValue == [kind |-> "pending", val |-> <<>>]

\* the aggregator, the summary and the loader before they are called
AggregatorIdle == fetched_commits = <<>> /\ authors_commits_num = PendingValue
SummaryIdle == listed_repo = EmptyDict /\ repo_summary = EmptyDict
LoaderIdle ==
    /\ batch_size = 0
    /\ save_data = <<>>
    /\ batch_start = 0
    /\ save_log = <<>>
    /\ save_pc = "idle"

Init ==
    /\ max_concurrent_requests \in CapacityInputs
    /\ requests_per_second \in CapacityInputs
    /\ \E f \in Flavours, n \in 0 .. MaxAvailable : upstream = UpstreamOf(f, n)
    /\ max_page \in 1 .. MaxAvailable
    /\ phase = IF SemaphoreRaises(max_concurrent_requests) THEN "ctor_error" ELSE "constructed"
    /\ error = IF SemaphoreRaises(max_concurrent_requests) THEN "ValueError" ELSE ""
    /\ semaphore = IF SemaphoreRaises(max_concurrent_requests) THEN 0 ELSE max_concurrent_requests
    /\ locked = FALSE
    /\ requests = <<>>
    /\ wakeAt = 0
    /\ clock = 0
    /\ admitted = <<>>
    /\ limit = 0
    /\ top_repos = <<>>
    /\ repositories_data = <<>>
    /\ pc = [t \in {0} |-> "idle"]
    /\ commits_results = <<>>
    /\ call_outcome = [t \in {0} |-> ""]
    /\ repositories = <<>>
    /\ transport_calls = [t \in {0} |-> 0]
    /\ AggregatorIdle
    /\ SummaryIdle
    /\ LoaderIdle

(***************************************************************************)
(* How an executor call that ended with r resumes its caller.              *)
(***************************************************************************)
\* how the call ended, for the history
CallOutcome(r) ==
    IF r.exc # "" THEN r.exc
    ELSE IF "hasItems" \in DOMAIN r.body /\ ~r.body.hasItems THEN "returned without items"
    ELSE "returned"

\* data["items"], line 88, where the call returned an object that has it
ListingItems(r) == IF r.exc = "" /\ r.body.hasItems THEN r.body.items ELSE <<>>

\* mutant of ListingFailure: a failed or item-less listing is taken as empty
ListingFailureIgnored(r) ==
    IF r.exc = "" /\ r.body.hasItems /\ LoopRaises(r.body.items) THEN "AttributeError" ELSE ""

\* the exception that leaves get_repositories before gather: that of
\* _make_request, the KeyError of line 88, the AttributeError of line 128
ListingFailure(r) ==
    IF r.exc # "" THEN r.exc
    ELSE IF ~r.body.hasItems THEN "KeyError"
    ELSE IF LoopRaises(r.body.items) THEN "AttributeError"
    ELSE ""

\* task 0: _get_top_repositories line 88 and get_repositories lines 122-144
ListingEnds(r) ==
    LET n == Len(ListingItems(r)) IN
    /\ call_outcome' = [call_outcome EXCEPT ![0] = CallOutcome(r)] @@ [t \in 1 .. n |-> ""]
    /\ IF ListingFailure(r) # ""
       THEN /\ phase' = "raised"
            /\ error' = ListingFailure(r)
            /\ pc' = [pc EXCEPT ![0] = "done"]
            /\ top_repos' = ListingItems(r)
            /\ UNCHANGED <<repositories_data, commits_results, repositories, transport_calls>>
       ELSE /\ phase' = "gather"
            /\ top_repos' = ListingItems(r)
            /\ repositories_data' = BuildRepositoriesData(ListingItems(r))
            /\ pc' = [t \in 0 .. n |-> IF t = 0 THEN "done" ELSE "semaphore"]
            /\ commits_results' = [t \in 1 .. n |-> PendingValue]
            /\ transport_calls' = transport_calls @@ [t \in 1 .. n |-> 0]
            /\ UNCHANGED <<error, repositories>>

\* mutant of GatherResult: the outcomes are kept in completion order
GatherResultAsCompleted(results, t, outcome) ==
    LET first == CHOOSE j \in 1 .. Len(results) :
                    /\ results[j].kind = "pending"
                    /\ \A k \in 1 .. (j - 1) : results[k].kind # "pending"
    IN  [results EXCEPT ![first] = outcome]

\* asyncio.gather, line 144: the outcome of the t-th coroutine is the t-th result
GatherResult(results, t, outcome) == [results EXCEPT ![t] = outcome]

\* tasks 1..n: the coroutine of line 141 ends and gather records its outcome
CommitTaskEnds(t, r) ==
    /\ commits_results' = GatherResult(commits_results, t, TaskOutcome(r))
    /\ call_outcome' = [call_outcome EXCEPT ![t] = CallOutcome(r)]
    /\ pc' = [pc EXCEPT ![t] = "done"]
    /\ UNCHANGED <<phase, error, top_repos, repositories_data, repositories, transport_calls>>

CallEnds(t, r) == IF t = 0 THEN ListingEnds(r) ELSE CommitTaskEnds(t, r)

(***************************************************************************)
(* _make_request, lines 77-80, and the limiter inside it.                  *)
(***************************************************************************)
\* line 78 once the lock is free: the critical section up to its first
\* suspension; slots is the semaphore's value while t holds its slot
Limiter(t, slots) ==
    LET step == AcquireStep(requests, clock, requests_per_second) IN
    /\ requests' = step.requests
    /\ CASE step.outcome = "admit" ->
              /\ admitted' = Append(admitted, clock)
              /\ locked' = FALSE
              /\ semaphore' = slots
              /\ pc' = [pc EXCEPT ![t] = "transport"]
              /\ transport_calls' = [transport_calls EXCEPT ![t] = @ + 1]
              /\ UNCHANGED <<wakeAt, callerVars>>
         [] step.outcome = "sleep" ->
              /\ locked' = TRUE
              /\ wakeAt' = step.wake
              /\ semaphore' = slots
              /\ pc' = [pc EXCEPT ![t] = "sleep"]
              /\ UNCHANGED <<admitted, callerVars, transport_calls>>
         [] OTHER ->
              /\ locked' = FALSE
              /\ semaphore' = slots + 1
              /\ CallEnds(t, Raised(step.outcome))
              /\ UNCHANGED <<admitted, wakeAt>>

\* get_repositories is called: the listing call starts
Run(l) ==
    /\ phase = "constructed"
    /\ phase' = "listing"
    /\ limit' = l
    /\ pc' = [pc EXCEPT ![0] = "semaphore"]
    /\ UNCHANGED <<max_concurrent_requests, requests_per_second, upstream, max_page, error,
                   semaphore,
                   limiterVars, clock, top_repos, repositories_data, commits_results,
                   call_outcome, repositories, transport_calls, functionVars>>

\* mutant of CanAcquireSlot: the request does not wait for a slot
CanAcquireSlotAlways(value) == TRUE

\* mutant of CanAcquireSlot: the last free slot is never given out
CanAcquireSlotSpare(value) == value > 1

\* mutant of CanAcquireSlot: a request passes when no slot is left
CanAcquireSlotAtZero(value) == value >= 0

\* asyncio.Semaphore.acquire returns when its value is positive
CanAcquireSlot(value) == value > 0

\* line 77: a slot is free; the task goes on to the limiter's lock
AcquireSlot(t) ==
    /\ pc[t] = "semaphore"
    /\ CanAcquireSlot(semaphore)
    /\ IF locked
       THEN /\ semaphore' = semaphore - 1
            /\ pc' = [pc EXCEPT ![t] = "lock"]
            /\ UNCHANGED <<limiterVars, callerVars, transport_calls>>
       ELSE Limiter(t, semaphore - 1)
    /\ UNCHANGED <<configVars, clock, functionVars>>

\* line 48: the lock was released and this waiter gets it
LockAcquired(t) ==
    /\ pc[t] = "lock"
    /\ ~locked
    /\ Limiter(t, semaphore)
    /\ UNCHANGED <<configVars, clock, functionVars>>

\* lines 57-62: the sleep is over
WakeUp(t) ==
    /\ pc[t] = "sleep"
    /\ clock >= wakeAt
    /\ requests' = AfterSleep(requests, clock)
    /\ admitted' = Append(admitted, clock)
    /\ locked' = FALSE
    /\ pc' = [pc EXCEPT ![t] = "transport"]
    /\ transport_calls' = [transport_calls EXCEPT ![t] = @ + 1]
    /\ UNCHANGED <<configVars, clock, semaphore, wakeAt, callerVars, functionVars>>

\* what the endpoint of task t may answer
Bodies(t) == IF t = 0 THEN ListingBodies ELSE {upstream[t].commits}

\* lines 79-80: the response arrives and decodes
TransportReturns(t) ==
    /\ pc[t] = "transport"
    /\ semaphore' = semaphore + 1
    /\ \E body \in Bodies(t) : CallEnds(t, Returned(body))
    /\ UNCHANGED <<configVars, clock, limiterVars, functionVars>>

\* lines 79-80: the transport fails or the body does not decode
TransportFails(t) ==
    /\ pc[t] = "transport"
    /\ semaphore' = semaphore + 1
    /\ CallEnds(t, Raised("ClientError"))
    /\ UNCHANGED <<configVars, clock, limiterVars, functionVars>>

\* mutant of HoldsSlot: the slot is not released when the task leaves the
\* limiter by an exception
HoldsSlotInTransport(t) == pc[t] = "transport"

\* the suspension points inside `async with self._semaphore`, lines 77-80
HoldsSlot(t) == pc[t] \in {"lock", "sleep", "transport"}

\* mutant of Cancel: the cancelled sleeper does not release the lock
CancelKeepsLock(t) ==
    /\ pc[t] \in {"semaphore", "lock", "sleep", "transport"}
    /\ semaphore' = IF HoldsSlot(t) THEN semaphore + 1 ELSE semaphore
    /\ CallEnds(t, Raised("CancelledError"))
    /\ UNCHANGED <<configVars, clock, locked, requests, wakeAt, admitted, functionVars>>

\* the task is cancelled at its suspension point: CancelledError unwinds
\* both `async with` blocks
Cancel(t) ==
    /\ pc[t] \in {"semaphore", "lock", "sleep", "transport"}
    /\ semaphore' = IF HoldsSlot(t) THEN semaphore + 1 ELSE semaphore
    /\ locked' = IF pc[t] = "sleep" THEN FALSE ELSE locked
    /\ CallEnds(t, Raised("CancelledError"))
    /\ UNCHANGED <<configVars, clock, requests, wakeAt, admitted, functionVars>>

\* lines 144-164: every gathered task is done
GatherReturns ==
    /\ phase = "gather"
    /\ \A t \in DOMAIN pc : pc[t] = "done"
    /\ repositories' = Zip(repositories_data, commits_results)
    /\ phase' = "returned"
    /\ UNCHANGED <<configVars, clock, semaphore, limiterVars, pc, error, top_repos,
                   repositories_data, commits_results, call_outcome, transport_calls,
                   functionVars>>

\* time passes; admissions a full second old leave the trailing window
Tick ==
    /\ clock < MaxTime
    /\ clock' = clock + 1
    /\ admitted' = SelectSeq(admitted, LAMBDA a : clock + 1 - a < Second)
    /\ UNCHANGED <<configVars, semaphore, locked, requests, wakeAt, pc, callerVars,
                   transport_calls, functionVars>>

Next ==
    \/ \E l \in LimitInputs : Run(l)
    \/ \E t \in DOMAIN pc : AcquireSlot(t)
    \/ \E t \in DOMAIN pc : LockAcquired(t)
    \/ \E t \in DOMAIN pc : WakeUp(t)
    \/ \E t \in DOMAIN pc : TransportReturns(t)
    \/ \E t \in DOMAIN pc : TransportFails(t)
    \/ \E t \in DOMAIN pc : Cancel(t)
    \/ GatherReturns
    \/ Tick

Spec == Init /\ [][Next]_vars

(***************************************************************************)
(* The same program with timers that fire on time: asyncio.sleep(d)        *)
(* returns d after its call and the event loop resumes the sleeper at      *)
(* once, so no time passes over a sleeper whose wait is over.              *)
(***************************************************************************)
SleeperDue == \E t \in DOMAIN pc : pc[t] = "sleep" /\ clock >= wakeAt

PromptTick == ~SleeperDue /\ Tick

NextPrompt ==
    \/ \E l \in LimitInputs : Run(l)
    \/ \E t \in DOMAIN pc : AcquireSlot(t)
    \/ \E t \in DOMAIN pc : LockAcquired(t)
    \/ \E t \in DOMAIN pc : WakeUp(t)
    \/ \E t \in DOMAIN pc : TransportReturns(t)
    \/ \E t \in DOMAIN pc : TransportFails(t)
    \/ \E t \in DOMAIN pc : Cancel(t)
    \/ GatherReturns
    \/ PromptTick

SpecPrompt == Init /\ [][NextPrompt]_vars

(***************************************************************************)
(* The same program with time that never ends and a fair event loop.  The  *)
(* clock stands at MaxTime from the start and every timestamp is kept      *)
(* relative to it: a tick moves the log and the wake-up time one tick into *)
(* the past (the code reads only differences of times).  A timestamp that  *)
(* is a second old is out of every window and a wake-up time that has come *)
(* is due for good, so neither is moved further.  The event loop runs a    *)
(* coroutine that is ready, a transport call in flight ends, and time      *)
(* passes.                                                                 *)
(***************************************************************************)
Earlier(time, floor) == IF time > floor THEN time - 1 ELSE time

LateTick ==
    /\ clock = MaxTime
    /\ requests' = [i \in 1 .. Len(requests) |-> Earlier(requests[i], clock - Second)]
    /\ admitted' = SelectSeq([i \in 1 .. Len(admitted) |->
                                 Earlier(admitted[i], clock - Second)],
                             LAMBDA a : clock - a < Second)
    /\ wakeAt' = Earlier(wakeAt, clock)
    /\ UNCHANGED <<configVars, clock, semaphore, locked, pc, callerVars, transport_calls,
                   functionVars>>

NextFair ==
    \/ \E l \in LimitInputs : Run(l)
    \/ \E t \in DOMAIN pc : AcquireSlot(t)
    \/ \E t \in DOMAIN pc : LockAcquired(t)
    \/ \E t \in DOMAIN pc : WakeUp(t)
    \/ \E t \in DOMAIN pc : TransportReturns(t)
    \/ \E t \in DOMAIN pc : TransportFails(t)
    \/ \E t \in DOMAIN pc : Cancel(t)
    \/ GatherReturns
    \/ LateTick

\* a coroutine that is ready to run is run
Scheduled ==
    \/ \E t \in DOMAIN pc : AcquireSlot(t) \/ LockAcquired(t) \/ WakeUp(t)
    \/ GatherReturns
\* a transport call in flight returns or fails
TransportEnds == \E t \in DOMAIN pc : TransportReturns(t) \/ TransportFails(t)

Fairness ==
    /\ WF_vars(Scheduled)
    /\ WF_vars(TransportEnds)
    /\ WF_vars(LateTick)

\* the scrappers with positive capacities, over a service whose records are
\* complete and whose pages are not cut short
InitFair ==
    /\ max_concurrent_requests \in 1 .. MaxCapacity
    /\ requests_per_second \in 1 .. MaxCapacity
    /\ \E n \in 0 .. MaxAvailable : upstream = UpstreamOf("plain", n)
    /\ max_page = MaxAvailable
    /\ phase = "constructed"
    /\ error = ""
    /\ semaphore = max_concurrent_requests
    /\ locked = FALSE
    /\ requests = <<>>
    /\ wakeAt = 0
    /\ clock = MaxTime
    /\ admitted = <<>>
    /\ limit = 0
    /\ top_repos = <<>>
    /\ repositories_data = <<>>
    /\ pc = [t \in {0} |-> "idle"]
    /\ commits_results = <<>>
    /\ call_outcome = [t \in {0} |-> ""]
    /\ repositories = <<>>
    /\ transport_calls = [t \in {0} |-> 0]
    /\ AggregatorIdle
    /\ SummaryIdle
    /\ LoaderIdle

SpecFair == InitFair /\ [][NextFair]_vars /\ Fairness

(***************************************************************************)
(* The scenario of five aggregation tasks behind a single slot, beside     *)
(* every initial state of Spec.                                            *)
(***************************************************************************)
InitFive ==
    /\ max_concurrent_requests = 1
    /\ requests_per_second = 2
    /\ upstream = UpstreamOf("plain", 5)
    /\ max_page = 5
    /\ phase = "constructed"
    /\ error = ""
    /\ semaphore = max_concurrent_requests
    /\ locked = FALSE
    /\ requests = <<>>
    /\ wakeAt = 0
    /\ clock = 0
    /\ admitted = <<>>
    /\ limit = 0
    /\ top_repos = <<>>
    /\ repositories_data = <<>>
    /\ pc = [t \in {0} |-> "idle"]
    /\ commits_results = <<>>
    /\ call_outcome = [t \in {0} |-> ""]
    /\ repositories = <<>>
    /\ transport_calls = [t \in {0} |-> 0]
    /\ AggregatorIdle
    /\ SummaryIdle
    /\ LoaderIdle

SpecFive == (Init \/ InitFive) /\ [][Next]_vars

(***************************************************************************)
(* The scrapper as constructed and never run, for the specifications that  *)
(* apply one function of the program to every input of a bounded set.      *)
(***************************************************************************)
ScrapperIdle ==
    /\ max_concurrent_requests = 1
    /\ requests_per_second = 1
    /\ upstream = <<>>
    /\ max_page = 1
    /\ phase = "constructed"
    /\ error = ""
    /\ semaphore = 1
    /\ locked = FALSE
    /\ requests = <<>>
    /\ wakeAt = 0
    /\ clock = 0
    /\ admitted = <<>>
    /\ limit = 0
    /\ top_repos = <<>>
    /\ repositories_data = <<>>
    /\ pc = [t \in {0} |-> "idle"]
    /\ commits_results = <<>>
    /\ call_outcome = [t \in {0} |-> ""]
    /\ repositories = <<>>
    /\ transport_calls = [t \in {0} |-> 0]

(***************************************************************************)
(* _get_repository_commits_count_by_author, lines 107-118, applied to      *)
(* every list of at most MaxEvents commit events.                          *)
(***************************************************************************)
MaxEvents == 3

\* events that lack a part of commit.author.name
NoCommitEvent == [sha |-> "c"]
NullAuthorEvent == [sha |-> "c", commit |-> [author |-> NullObject]]
EmptyAuthorEvent == [sha |-> "c", commit |-> [author |-> EmptyDict]]
NullNameEvent == CommitEvent(None)

EventKinds ==
    {"x", "y", "no commit", "null commit", "no author", "null author", "empty author",
     "no name", "null name", "not an object"}

EventOf(kind) ==
    CASE kind = "no commit"     -> NoCommitEvent
      [] kind = "null commit"   -> NullCommitEvent
      [] kind = "no author"     -> NoAuthorEvent
      [] kind = "null author"   -> NullAuthorEvent
      [] kind = "empty author"  -> EmptyAuthorEvent
      [] kind = "no name"       -> NamelessAuthorEvent
      [] kind = "null name"     -> NullNameEvent
      [] kind = "not an object" -> NotADict
      [] OTHER                  -> CommitEvent(kind)

InitAggregate ==
    /\ ScrapperIdle
    /\ SummaryIdle
    /\ LoaderIdle
    /\ \E n \in 0 .. MaxEvents : \E kinds \in [1 .. n -> EventKinds] :
          fetched_commits = [i \in 1 .. n |-> EventOf(kinds[i])]
    /\ authors_commits_num = PendingValue

\* line 107 returned fetched_commits; lines 109-118 run on it
Aggregate ==
    /\ authors_commits_num = PendingValue
    /\ authors_commits_num' = TaskOutcome(Returned(ListBody(fetched_commits)))
    /\ UNCHANGED <<fetched_commits, scrapperVars, summaryVars, loaderVars>>

NextAggregate == Aggregate

SpecAggregate == InitAggregate /\ [][NextAggregate]_vars

(***************************************************************************)
(* get_repositories, lines 127-139, applied to one record of the listing,  *)
(* for every combination of fields missing, null and given.                *)
(***************************************************************************)
FieldKinds == {"missing", "null", "given"}
NumberKinds == {"missing", "given"}
OwnerKinds == {"missing", "null", "empty", "no login", "given"}

\* the part of a JSON object that holds key, if any
Field(key, kind, given) ==
    CASE kind = "missing" -> EmptyDict
      [] kind = "null"    -> [k \in {key} |-> None]
      [] OTHER            -> [k \in {key} |-> given]

OwnerField(kind) ==
    CASE kind = "missing"  -> EmptyDict
      [] kind = "null"     -> [owner |-> NullObject]
      [] kind = "empty"    -> [owner |-> EmptyDict]
      [] kind = "no login" -> [owner |-> [id |-> 1]]
      [] OTHER             -> [owner |-> [login |-> "octo"]]

ListingRecord(name, owner, language, stars, watchers, forks) ==
    Field("name", name, "r") @@ OwnerField(owner) @@ Field("language", language, "Go")
        @@ Field("stargazers_count", stars, 9) @@ Field("watchers_count", watchers, 8)
        @@ Field("forks_count", forks, 7)

\* the loop body of line 127 ended with AttributeError
SummaryRaised == [raised |-> "AttributeError"]

InitSummary ==
    /\ ScrapperIdle
    /\ AggregatorIdle
    /\ LoaderIdle
    /\ \E name \in FieldKinds, owner \in OwnerKinds, language \in FieldKinds :
          \E stars \in NumberKinds, watchers \in NumberKinds, forks \in NumberKinds :
              listed_repo = ListingRecord(name, owner, language, stars, watchers, forks)
    /\ repo_summary = EmptyDict

\* lines 128-139 for the first record of the listing
Summarize ==
    /\ DOMAIN repo_summary = {}
    /\ repo_summary' = IF OwnerRaises(listed_repo) THEN SummaryRaised
                       ELSE RepositoryData(listed_repo, Position(1))
    /\ UNCHANGED <<listed_repo, scrapperVars, aggregatorVars, loaderVars>>

NextSummary == Summarize

SpecSummary == InitSummary /\ [][NextSummary]_vars

(***************************************************************************)
(* task3/save_to_clickhouse.py: _save_in_batches, lines 95-117, called     *)
(* with every list of at most MaxRecords records by a manager of every     *)
(* batch size from -1 to MaxBatchSize (the constructor takes any integer). *)
(* The records are told apart by their rank in the list.                   *)
(***************************************************************************)
MaxRecords == 6
MaxBatchSize == 3

BatchSizes == -1 .. MaxBatchSize

\* mutant of Batch: the slice is one record too long
BatchOneTooLong(records, start, size) ==
    SubSeq(records, start + 1, Min(start + size + 1, Len(records)))

\* batch = data[i:i + self.batch_size]
Batch(records, start, size) == SubSeq(records, start + 1, Min(start + size, Len(records)))

\* line 116: another batch follows
MoreBatches(records, start, size) == start + size < Len(records)

InsertEntry(batch) == [op |-> "INSERT", batch |-> batch]
SleepEntry == [op |-> "sleep", batch |-> <<>>]

InitSave ==
    /\ ScrapperIdle
    /\ AggregatorIdle
    /\ SummaryIdle
    /\ batch_size \in BatchSizes
    /\ \E n \in 0 .. MaxRecords : save_data = [k \in 1 .. n |-> k]
    /\ batch_start = 0
    /\ save_log = <<>>
    /\ save_pc = "idle"

\* lines 96-103: the call up to its first await; range() raises ValueError on
\* a step of 0 and is empty on a negative step
SaveInBatches ==
    /\ save_pc = "idle"
    /\ save_pc' = IF save_data = <<>> THEN "returned"
                  ELSE IF batch_size = 0 THEN "ValueError"
                  ELSE IF batch_size < 0 THEN "returned"
                  ELSE IF Batch(save_data, 0, batch_size) = <<>> THEN "Exception"
                  ELSE "insert"
    /\ UNCHANGED <<batch_size, save_data, batch_start, save_log, scrapperVars,
                   aggregatorVars, summaryVars>>

\* lines 106-117: the insert returned; the loop pauses if another batch
\* follows and ends otherwise
InsertReturns ==
    /\ save_pc = "insert"
    /\ IF MoreBatches(save_data, batch_start, batch_size)
       THEN /\ save_log' = save_log \o <<InsertEntry(Batch(save_data, batch_start, batch_size)),
                                          SleepEntry>>
            /\ save_pc' = "pause"
       ELSE /\ save_log' = Append(save_log,
                                  InsertEntry(Batch(save_data, batch_start, batch_size)))
            /\ save_pc' = "returned"
    /\ UNCHANGED <<batch_size, save_data, batch_start, scrapperVars, aggregatorVars,
                   summaryVars>>

\* lines 111-113: the insert failed; the exception is logged and raised again
InsertFails ==
    /\ save_pc = "insert"
    /\ save_pc' = "InsertError"
    /\ UNCHANGED <<batch_size, save_data, batch_start, save_log, scrapperVars,
                   aggregatorVars, summaryVars>>

\* line 117 returned: the next round of the loop, lines 99-103
PauseEnds ==
    /\ save_pc = "pause"
    /\ batch_start' = batch_start + batch_size
    /\ save_pc' = IF Batch(save_data, batch_start + batch_size, batch_size) = <<>>
                  THEN "Exception" ELSE "insert"
    /\ UNCHANGED <<batch_size, save_data, save_log, scrapperVars, aggregatorVars,
                   summaryVars>>

NextSave == SaveInBatches \/ InsertReturns \/ InsertFails \/ PauseEnds

SpecSave == InitSave /\ [][NextSave]_vars

(***************************************************************************)
(* Properties.                                                             *)
(***************************************************************************)
Constructed == phase # "ctor_error"
ValidConfig == max_concurrent_requests >= 1 /\ requests_per_second >= 1

\* the admissions whose timestamp lies in the trailing window (clock - Second, clock]
InWindow == {i \in 1 .. Len(admitted) : clock - admitted[i] < Second /\ admitted[i] <= clock}

\* C1: with requests_per_second >= 1, under every interleaving of the callers
\* of acquire(), the trailing one-second window of every instant holds at
\* most requests_per_second recorded admission timestamps.
C1_RateProperty ==
    requests_per_second >= 1 => Cardinality(InWindow) <= requests_per_second

\* C1 witness: a caller found the window full and slept, an admission was
\* recorded once its wait was over, and the window is full again.
C1_Witness ==
    /\ requests_per_second >= 1
    /\ wakeAt > 0
    /\ ~locked
    /\ \E i \in 1 .. Len(admitted) : admitted[i] >= wakeAt
    /\ Cardinality(InWindow) = requests_per_second

InTransport == {t \in DOMAIN pc : pc[t] = "transport"}

\* C2: in every reachable state at most max_concurrent_requests executor
\* calls are in transport, however many tasks were gathered; with one slot
\* and five gathered tasks at most one.
C2_ConcurrencyProperty ==
    Constructed => Cardinality(InTransport) <= max_concurrent_requests

\* C2 witness: one slot, five gathered tasks, one of them in transport while
\* the four others wait for the slot.
C2_Witness ==
    /\ max_concurrent_requests = 1
    /\ Len(commits_results) = 5
    /\ Cardinality(InTransport) = 1
    /\ Cardinality({t \in DOMAIN pc : pc[t] = "semaphore"}) = 4

Reports == 1 .. Len(repositories)
Authors(i) == repositories[i].authors_commits_num_today

\* what the aggregation of the i-th repository's commits yields
ExpectedAuthors(i) == CommitsResult(TaskOutcome(Returned(upstream[i].commits)))

\* the commit fetch of the i-th repository failed
FetchFailed(i) == call_outcome[i] \in {"ClientError", "IndexError"}
FetchReturned(i) == call_outcome[i] = "returned"

\* the i-th report is that of the i-th record of the listing
ReportOfRecord(i) ==
    /\ repositories[i].name = Get(top_repos[i], "name", "")
    /\ repositories[i].stars = Get(top_repos[i], "stargazers_count", 0)

\* C3: in every batch returned, position is strictly increasing by index and
\* the i-th report is that of the i-th listed repository, with the author
\* counts of that repository's commits, whatever the order in which the
\* gathered tasks ended.
C3_OrderPreserved ==
    phase = "returned" =>
        /\ Len(repositories) = Len(top_repos)
        /\ \A i \in Reports :
              /\ i > 1 => repositories[i - 1].position < repositories[i].position
              /\ ReportOfRecord(i)
              /\ FetchReturned(i) => Authors(i) = ExpectedAuthors(i)

\* C3 witness: a batch of two reports carrying different author counts, each
\* those of its own repository.
C3_Witness ==
    /\ phase = "returned"
    /\ Len(repositories) = 2
    /\ Authors(1) = ListValue(<<RepositoryAuthorCommitsNum("x", 1), RepositoryAuthorCommitsNum("y", 1)>>)
    /\ Authors(2) = ListValue(<<RepositoryAuthorCommitsNum("x", 2), RepositoryAuthorCommitsNum("y", 1)>>)

\* C4: when the commit fetch of some but not all repositories failed, the
\* batch still has one report per listed repository, a failed one has no
\* authors, and every repository whose fetch returned has exactly the author
\* counts of its commits.
C4_PartialFailureContained ==
    (/\ phase = "returned"
     /\ \E i \in Reports : FetchFailed(i)
     /\ \E i \in DOMAIN top_repos : ~FetchFailed(i)) =>
        /\ Len(repositories) = Len(top_repos)
        /\ \A i \in Reports :
              /\ ReportOfRecord(i)
              /\ FetchFailed(i) => Authors(i) = ListValue(<<>>)
              /\ FetchReturned(i) => Authors(i) = ExpectedAuthors(i)

\* C4 witness: the first fetch failed and the second repository still has
\* its two authors.
C4_Witness ==
    /\ phase = "returned"
    /\ Len(repositories) = 2
    /\ FetchFailed(1)
    /\ Authors(1) = ListValue(<<>>)
    /\ FetchReturned(2)
    /\ Len(Authors(2).val) = 2

\* the listing call failed: a fault, a cancellation, or a body without "items"
ListingFailed == call_outcome[0] \notin {"", "returned"}

\* C5: when the listing call fails, get_repositories raises and no
\* aggregation task exists, so no commit request is issued.
C5_CatalogFailureFatal ==
    ListingFailed =>
        /\ phase = "raised"
        /\ DOMAIN pc = {0}
        /\ commits_results = <<>>

\* C5 witness: the transport of the listing call failed and the run raised.
C5_Witness ==
    /\ call_outcome[0] = "ClientError"
    /\ phase = "raised"
    /\ error = "ClientError"

\* C6 as claimed: every batch returned has one report per listed repository
\* and every report's authors_commits_num_today is a list, whatever the
\* outcome of its task.
C6_AuthorsAlwaysList ==
    phase = "returned" =>
        /\ Len(repositories) = Len(top_repos)
        /\ \A i \in Reports : Authors(i).kind = "list"

\* C7 as claimed: get_repositories raises only when the listing call failed.
C7_OnlyListingFailureRaises ==
    phase = "raised" => ListingFailed

\* the executor calls inside the guarded section of _make_request
InGuardedSection == {t \in DOMAIN pc : pc[t] \in {"lock", "sleep", "transport"}}

\* C8: the occupied slots are exactly the executor calls inside the guarded
\* section, on every exit path, and once every task has finished every slot
\* is free.
C8_SlotsNeverLeak ==
    Constructed =>
        /\ max_concurrent_requests - semaphore = Cardinality(InGuardedSection)
        /\ (\A t \in DOMAIN pc : pc[t] \in {"idle", "done"}) => semaphore = max_concurrent_requests

\* C8 witness: a run in which one call failed and one task was cancelled has
\* returned, and every slot is free.
C8_Witness ==
    /\ phase = "returned"
    /\ max_concurrent_requests >= 1
    /\ \E i \in Reports : call_outcome[i] = "ClientError"
    /\ \E i \in Reports : call_outcome[i] = "CancelledError"
    /\ semaphore = max_concurrent_requests

\* C9 as claimed: no scrapper with a non-positive capacity gets as far as a
\* call of get_repositories.
C9_InvalidConfigRejected ==
    phase \in {"listing", "gather", "returned", "raised"} => ValidConfig

\* C10 as claimed: the batch returned has length min(limit, available results).
C10_LengthIsMinLimitAvailable ==
    phase = "returned" => Len(repositories) = Min(limit, Len(upstream))

(***************************************************************************)
(* Properties of the aggregator, under SpecAggregate.                      *)
(***************************************************************************)
Aggregated == authors_commits_num.kind = "list"
Entries == authors_commits_num.val

\* the event has an author object that says something: commit.author is
\* there, not null and not empty
HasAuthor(commit) ==
    /\ IsDict(commit)
    /\ "commit" \in DOMAIN commit
    /\ ~IsNone(commit["commit"])
    /\ "author" \in DOMAIN commit["commit"]
    /\ Truthy(commit["commit"]["author"])

HasName(commit) == HasAuthor(commit) /\ "name" \in DOMAIN commit["commit"]["author"]

\* the author an event is to be counted under: its display name, "Unknown"
\* when it lacks one
DisplayName(commit) == IF HasName(commit) THEN commit["commit"]["author"]["name"] ELSE "Unknown"

EventsOf(author) ==
    {i \in DOMAIN fetched_commits : DisplayName(fetched_commits[i]) = author}

RECURSIVE SumCounts(_)
SumCounts(entries) ==
    IF Len(entries) = 0 THEN 0 ELSE entries[1].commits_num + SumCounts(Tail(entries))

\* C11 as claimed: every event of the list is counted under exactly one
\* author, its display name or "Unknown" when it lacks author identity, so
\* the counts sum to the number of events.
C11_EveryEventCounted ==
    Aggregated =>
        /\ SumCounts(Entries) = Len(fetched_commits)
        /\ \A i \in DOMAIN fetched_commits :
              \E j \in DOMAIN Entries :
                  /\ Entries[j].author = DisplayName(fetched_commits[i])
                  /\ Entries[j].commits_num = Cardinality(EventsOf(Entries[j].author))

(***************************************************************************)
(* Properties of the summary, under SpecSummary.                           *)
(***************************************************************************)
Summarized == DOMAIN repo_summary # {}
Missing(key) == key \notin DOMAIN listed_repo
MissingOrNull(key) == Missing(key) \/ listed_repo[key] = None

SummaryFailed == "raised" \in DOMAIN repo_summary
\* the owner is there and null, which the claim is not about
NullOwner == ~Missing("owner") /\ IsNone(listed_repo["owner"])

\* C12 as claimed: a missing owner or name does not fail the fetch, and in
\* the summary produced for a record the language is "Unknown" when the
\* record's language is missing or null, the name / owner is "" when the
\* record's name / owner is missing, and the other fields are the record's.
C12_MissingFieldsNormalised ==
    Summarized =>
        /\ ~NullOwner => ~SummaryFailed
        /\ ~SummaryFailed =>
              /\ MissingOrNull("language") => repo_summary.language = "Unknown"
              /\ ~MissingOrNull("language") => repo_summary.language = listed_repo["language"]
              /\ Missing("name") => repo_summary.name = ""
              /\ ~Missing("name") => repo_summary.name = listed_repo["name"]
              /\ Missing("owner") => repo_summary.owner = ""
              /\ ~Missing("stargazers_count") =>
                    repo_summary.stars = listed_repo["stargazers_count"]
              /\ ~Missing("watchers_count") =>
                    repo_summary.watchers = listed_repo["watchers_count"]
              /\ ~Missing("forks_count") => repo_summary.forks = listed_repo["forks_count"]

(***************************************************************************)
(* Properties of the gates, under Spec, SpecPrompt and SpecFair.           *)
(***************************************************************************)
\* task t starts the critical section of acquire() in this step
EntersLimiter(t) == pc[t] \in {"semaphore", "lock"} /\ pc'[t] \in {"sleep", "transport"}

\* the step records an admission at the current instant
AdmittedNow == admitted' = Append(admitted, clock)

\* C13: with timers that fire on time and a limiter of positive capacity, a
\* caller whose turn in acquire() comes while fewer than requests_per_second
\* admissions lie in the trailing second is admitted at that instant; any
\* other caller is admitted exactly when the oldest admission of that
\* window becomes one second old, not earlier and not later.  So with
\* requests_per_second = 2 and three calls at time 0 the admissions are at
\* 0, 0 and one second.
C13_AdmissionInstant ==
    [][\A t \in DOMAIN pc :
          requests_per_second >= 1 =>
              /\ (EntersLimiter(t) /\ Len(admitted) < requests_per_second) =>
                    pc'[t] = "transport" /\ AdmittedNow
              /\ (EntersLimiter(t) /\ Len(admitted) >= requests_per_second) =>
                    /\ pc'[t] = "sleep"
                    /\ admitted' = admitted
                    /\ wakeAt' = admitted[1] + Second
              /\ (pc[t] = "sleep" /\ pc'[t] = "transport") =>
                    clock = wakeAt /\ AdmittedNow]_vars

\* C13 witness: two admissions at time 0 filled the window of a limiter of
\* 2 per second, the third caller slept until one second and has just been
\* admitted at exactly that instant.
C13_Witness ==
    /\ requests_per_second = 2
    /\ wakeAt = Second
    /\ clock = Second
    /\ admitted = <<Second>>
    /\ requests = <<Second>>
    /\ ~locked
    /\ \E t \in DOMAIN pc : t > 0 /\ pc[t] = "transport"

\* C14: an executor call goes forward only, from waiting for a slot to the
\* rate limiter to the transport; it leaves the wait for a slot by taking a
\* free one, keeps it through the limiter, and enters the transport only in
\* the step in which the limiter admits it, so no task is in the limiter or
\* in transport without a slot.
C14_SlotThenLimiterThenTransport ==
    [][\A t \in DOMAIN pc :
          /\ pc[t] # pc'[t] =>
                \/ pc[t] = "idle" /\ pc'[t] = "semaphore"
                \/ pc[t] = "semaphore" /\ pc'[t] \in {"lock", "sleep", "transport", "done"}
                \/ pc[t] = "lock" /\ pc'[t] \in {"sleep", "transport", "done"}
                \/ pc[t] = "sleep" /\ pc'[t] \in {"transport", "done"}
                \/ pc[t] = "transport" /\ pc'[t] = "done"
          /\ (pc[t] = "semaphore" /\ pc'[t] \in {"lock", "sleep", "transport"}) =>
                semaphore > 0 /\ semaphore' = semaphore - 1
          /\ (pc[t] \in {"lock", "sleep"} /\ pc'[t] \in {"sleep", "transport"}
                  /\ pc[t] # pc'[t]) => semaphore' = semaphore
          /\ (pc[t] # "transport" /\ pc'[t] = "transport") => AdmittedNow
          /\ pc'[t] \in {"lock", "sleep", "transport"} =>
                semaphore' < max_concurrent_requests]_vars

\* C14 witness: a task holds the only occupied slot while it sleeps in the
\* rate limiter, before its wait is over.
C14_Witness ==
    \E t \in DOMAIN pc :
        /\ pc[t] = "sleep"
        /\ clock < wakeAt
        /\ semaphore = max_concurrent_requests - 1

\* the commit tasks of the run
Entities == 1 .. Len(top_repos)

\* C15 as claimed: no executor call issues more than one transport call, and
\* a run that returned over N repositories issued exactly one listing call
\* and exactly one commit call per repository.
C15_ExactlyOneCallPerEntity ==
    /\ \A t \in DOMAIN transport_calls : transport_calls[t] <= 1
    /\ phase = "returned" =>
          /\ transport_calls[0] = 1
          /\ \A i \in Entities : transport_calls[i] = 1

\* C15 amended: no executor call issues more than one transport call, a
\* transport failure reaches the caller of the executor (and fails the run
\* when the call is the listing), and a run that returned over N
\* repositories issued exactly one listing call and, per repository, exactly
\* one commit call, or none if its task was cancelled before its request
\* was sent.
C15_NoRetryNoSwallow ==
    [][/\ \A t \in DOMAIN pc :
             TransportFails(t) =>
                 /\ call_outcome'[t] = "ClientError"
                 /\ t = 0 => phase' = "raised" /\ error' = "ClientError"
       /\ \A t \in DOMAIN transport_calls' : transport_calls'[t] <= 1
       /\ phase' = "returned" =>
             /\ DOMAIN transport_calls' = 0 .. Len(top_repos')
             /\ transport_calls'[0] = 1
             /\ \A i \in 1 .. Len(top_repos') :
                   \/ transport_calls'[i] = 1
                   \/ call_outcome'[i] = "CancelledError" /\ transport_calls'[i] = 0]_vars

\* C15 witness: a run over two repositories returned although the commit
\* call of the first failed, and one listing call and two commit calls
\* were issued.
C15_Witness ==
    /\ phase = "returned"
    /\ Len(top_repos) = 2
    /\ call_outcome[1] = "ClientError"
    /\ call_outcome[2] = "returned"
    /\ \A t \in 0 .. 2 : transport_calls[t] = 1

\* C16 as claimed: a caller of acquire() that sleeps until the window opens
\* does not hold the limiter's lock meanwhile, so no other caller is kept
\* waiting for the lock by a sleeper.
C16_SleepsWithoutLock ==
    (\E t \in DOMAIN pc : pc[t] = "sleep") =>
        /\ ~locked
        /\ \A u \in DOMAIN pc : pc[u] # "lock"

\* the events that carry an author, and the names they are counted under
AuthorEvents == {i \in DOMAIN fetched_commits : HasAuthor(fetched_commits[i])}
NamesSeen == {DisplayName(fetched_commits[i]) : i \in AuthorEvents}
EventsNamed(author) == {i \in AuthorEvents : DisplayName(fetched_commits[i]) = author}
FirstSeen(author) == CHOOSE i \in EventsNamed(author) : \A k \in EventsNamed(author) : i <= k

\* C17: the list the aggregator returns has exactly one entry per distinct
\* author name of the events that carry an author, the entry's count is the
\* number of those events with that name, at least 1, and the entries stand
\* in the order in which their names first occur in the event list.
C17_OneEntryPerAuthorFirstSeen ==
    Aggregated =>
        /\ {Entries[j].author : j \in DOMAIN Entries} = NamesSeen
        /\ Len(Entries) = Cardinality(NamesSeen)
        /\ \A j \in DOMAIN Entries :
              /\ Entries[j].commits_num = Cardinality(EventsNamed(Entries[j].author))
              /\ Entries[j].commits_num >= 1
        /\ \A j, k \in DOMAIN Entries :
              j < k => FirstSeen(Entries[j].author) < FirstSeen(Entries[k].author)

\* C17 witness: three events by "y", by an author without a name and by
\* "x" give three entries in that order, sorted neither by name nor by count.
C17_Witness ==
    /\ Aggregated
    /\ Len(fetched_commits) = 3
    /\ Len(Entries) = 3
    /\ Entries[1] = RepositoryAuthorCommitsNum("y", 1)
    /\ Entries[2] = RepositoryAuthorCommitsNum("Unknown", 1)
    /\ Entries[3] = RepositoryAuthorCommitsNum("x", 1)

(***************************************************************************)
(* Properties of the loader, under SpecSave.                               *)
(***************************************************************************)
Inserts == SelectSeq(save_log, LAMBDA entry : entry.op = "INSERT")

RECURSIVE Concatenation(_)
Concatenation(entries) ==
    IF Len(entries) = 0 THEN <<>> ELSE entries[1].batch \o Concatenation(Tail(entries))

\* the records inserted so far, in the order of their insertion
Inserted == Concatenation(Inserts)

\* C18: with batch_size >= 1 the call inserts non-empty batches of at most
\* batch_size records which, put end to end, are at every moment a prefix of
\* the input list and, once the call has returned, the whole list; inserts
\* and pauses alternate, beginning and ending with an insert; and the call
\* ends early only when an insert fails.
C18_BatchesCoverInput ==
    batch_size >= 1 =>
        /\ \A k \in DOMAIN save_log :
              save_log[k].op = IF k % 2 = 1 THEN "INSERT" ELSE "sleep"
        /\ \A k \in DOMAIN Inserts :
              Len(Inserts[k].batch) >= 1 /\ Len(Inserts[k].batch) <= batch_size
        /\ Len(Inserted) <= Len(save_data)
        /\ Inserted = SubSeq(save_data, 1, Len(Inserted))
        /\ save_pc \in {"idle", "insert", "pause", "returned", "InsertError"}
        /\ save_pc = "returned" =>
              /\ Len(Inserted) = Len(save_data)
              /\ Len(save_log) > 0 => save_log[Len(save_log)].op = "INSERT"

\* C18 witness: five records went in as batches of 2, 2 and 1 with two
\* pauses between them.
C18_Witness ==
    /\ save_pc = "returned"
    /\ batch_size = 2
    /\ Len(save_data) = 5
    /\ Len(save_log) = 5
    /\ Len(Inserts) = 3
    /\ Len(Inserts[3].batch) = 1
    /\ Len(Inserted) = 5

RunEnded == phase \in {"returned", "raised"}

\* C19: with max_concurrent_requests >= 1 and requests_per_second >= 1, a
\* fair event loop and transport calls that end, every run of
\* get_repositories that has started ends, for every number of gathered
\* tasks: no task waits for ever for a slot, for the lock or for the window.
C19_RunTerminates == (ValidConfig /\ phase = "listing") ~> RunEnded

\* C19 witness: behind one slot and a limiter of one per second a run over
\* two repositories returned after its tasks queued for the slot and slept
\* in the limiter, and both commit calls returned.
C19_Witness ==
    /\ phase = "returned"
    /\ max_concurrent_requests = 1
    /\ requests_per_second = 1
    /\ Len(top_repos) = 2
    /\ \A i \in Entities : call_outcome[i] = "returned"
    /\ wakeAt > 0

\* task t is cancelled in this step while suspended inside acquire()
CancelledInAcquire(t) ==
    /\ pc[t] \in {"lock", "sleep"}
    /\ pc'[t] = "done"
    /\ call_outcome'[t] = "CancelledError"

\* C20: a task cancelled while it waits for the limiter's lock or sleeps
\* for the window leaves the log as it was and sends no request; if it was
\* the sleeper the lock is free afterwards, if it was waiting the lock stays
\* with its holder.  At all times the lock is held only by a task that is
\* sleeping, and the log, pruned to the trailing second, is exactly the
\* admissions of that second.
C20_CancelledInAcquireLeavesNoTrace ==
    [][/\ \A t \in DOMAIN pc :
             CancelledInAcquire(t) =>
                 /\ requests' = requests
                 /\ admitted' = admitted
                 /\ transport_calls'[t] = 0
                 /\ pc[t] = "sleep" => ~locked'
                 /\ pc[t] = "lock" => locked' = locked
       /\ locked' => \E u \in DOMAIN pc' : pc'[u] = "sleep"
       /\ Prune(requests', clock') = admitted']_vars

\* C20 witness: the sleeper was cancelled before its wake-up time; the lock
\* is free and a task that waited for it can go on.
C20_Witness ==
    /\ ~locked
    /\ wakeAt > clock
    /\ \E t \in DOMAIN pc : call_outcome[t] = "CancelledError" /\ transport_calls[t] = 0
    /\ \E u \in DOMAIN pc : pc[u] = "lock"

====
